---- MODULE Spec2Model ----
(***************************************************************************)
(* Target TCIN Indexing Checker (src/app.py): one run of main() after the  *)
(* "Check Indexing" button is pressed.  The browser (Selenium driver) and  *)
(* the Streamlit widgets are the environment: every driver.get either      *)
(* raises or delivers a page, every widget call either returns or raises.  *)
(*                                                                         *)
(* An identifier (TCIN) is a digit string; the model writes the string     *)
(* "222" as the number 222.  A keyword and a row key are strings.          *)
(***************************************************************************)
EXTENDS Integers, Sequences, FiniteSets, TLC

\* ------------------------------------------------------------------ bounds
\* The slider offers 1..10 pages; the model explores 1..MaxPages.
MaxPages == 2
\* Longest identifier list and keyword list entered in the sidebar.
MaxTcins == 2
MaxKeywords == 2

\* --------------------------------------------------------------- constants
\* Results per page: the literal 24 of `offset = (page - 1) * 24` and of
\* `if len(unique_tcins) < 24`.
PageSize == 24

\* Identifiers the user may enter, keywords the user may enter.  "TCIN" is
\* also the key under which a row stores its identifier.
Tcins == {111, 222}
Keywords == {"x", "TCIN"}
RowLabel == "TCIN"

\* ------------------------------------------------------------ environment
\* Run(k, n): the identifiers 111*k, 111*(k+1), ... (n of them).
Run(k, n) == [i \in 1..n |-> 111 * (k + i - 1)]

\* A page is read as the sequence of what matters in its markup: the product
\* links, each written as the identifier it carries, and the headings of the
\* secondary sections ("Recommended for you", "Sponsored"), written Marker.
Marker == 0

\* driver.page_source of a delivered page: no product; a short last page, its
\* first product linked twice; a full page, its first product linked again
\* further down; a full page followed by a recommendation section that links
\* one more product.
PageSources ==
    { << >>,
      <<111>> \o Run(1, 10),
      Run(2, 24) \o <<222>>,
      Run(2, 24) \o <<Marker, 111>> }

\* How one pass of the page loop can go.
\*   ok             the page is delivered and both widget calls return
\*   timeout        driver.get or wait.until raises for this page only
\*   session        driver.get raises because the browser session is gone
\*   status_error   status_text.text raises before driver.get is called
\*   progress_error progress_bar.progress raises after the records are added
Outcomes == {"ok", "timeout", "session", "status_error", "progress_error"}

\* The passes in which the fetch of the page itself failed.
FetchFailures == {"timeout", "session"}

\* --------------------------------------------------------------- dict type
EmptyDict == [k \in {} |-> 0]
Put(d, k, v) == [x \in (DOMAIN d) \cup {k} |-> IF x = k THEN v ELSE d[x]]
Get(d, k, default) == IF k \in DOMAIN d THEN d[k] ELSE default

\* Values a row holds: its identifier under RowLabel, and per keyword either
\* "#<position> (Page <page>)" or the dash.
Label(t) == [kind |-> "label", tcin |-> t, position |-> 0, page |-> 0]
Found(position, pg) == [kind |-> "found", tcin |-> 0, position |-> position, page |-> pg]
Absent == [kind |-> "absent", tcin |-> 0, position |-> 0, page |-> 0]

\* ----------------------------------------------------------------- state
VARIABLES
    tcin_list,       \* identifiers parsed from the sidebar
    keyword_list,    \* keywords parsed from the sidebar
    max_pages,       \* slider value
    pc,              \* where main() is
    driver,          \* "none" | "open" | "dead" (session gone) | "quit"
    idx,             \* 1-based index of the keyword being searched
    page,            \* page of the current search_target_keyword call
    all_tcins,       \* accumulator of the current call
    results_data,    \* dict keyword -> record list
    results_matrix,  \* list of row dicts
    passes,          \* history: passes of the page loop of the call in
                     \*   progress or, between two keywords, just returned:
                     \*   [page, outcome, html (page_source), found (found_tcins)]
    initCount,       \* history: sessions created
    quitCount,       \* history: driver.quit() calls
    fetchAfterQuit,  \* history: a driver.get was issued after driver.quit()
    errored,         \* history: the outer except clause ran
    kept,            \* history: keyword -> [idx, records] of its latest search
                     \*   that a failed fetch ended
    total_checks,    \* summary statistics of the report
    found_count,
    success_rate,    \* displayed rate, in tenths of a percent
    fetches          \* history: driver.get calls issued in the run so far

vars == <<tcin_list, keyword_list, max_pages, pc, driver, idx, page, all_tcins,
          results_data, results_matrix, passes, initCount, quitCount,
          fetchAfterQuit, errored, kept, total_checks, found_count,
          success_rate, fetches>>

\* Lists of length at most n over S.
ListsUpTo(S, n) == UNION {[1..m -> S] : m \in 0..n}

Init ==
    /\ tcin_list \in ListsUpTo(Tcins, MaxTcins)
    /\ keyword_list \in ListsUpTo(Keywords, MaxKeywords)
    /\ max_pages \in 1..MaxPages
    /\ pc = "main"
    /\ driver = "none"
    /\ idx = 0
    /\ page = 0
    /\ all_tcins = << >>
    /\ results_data = EmptyDict
    /\ results_matrix = << >>
    /\ passes = << >>
    /\ initCount = 0
    /\ quitCount = 0
    /\ fetchAfterQuit = FALSE
    /\ errored = FALSE
    /\ kept = EmptyDict
    /\ total_checks = 0
    /\ found_count = 0
    /\ success_rate = 0
    /\ fetches = 0

\* ------------------------------------------------- search_target_keyword
\* re.findall(tcin_pattern, page_html): every product link of the page, in
\* page order, whatever section it is in.
findall(page_html) == SelectSeq(page_html, LAMBDA t : t # Marker)

\* list(dict.fromkeys(found_tcins)): the first n entries of s without
\* repetition, in order of first occurrence.
RECURSIVE DedupUpTo(_, _)
DedupUpTo(s, n) ==
    IF n = 0 THEN << >>
    ELSE LET d == DedupUpTo(s, n - 1)
         IN  IF \E j \in 1..Len(d) : d[j] = s[n] THEN d ELSE Append(d, s[n])

\* Mutant: the list is used as found, repetitions included.
unique_tcins_Mutant(found_tcins) == found_tcins

unique_tcins(found_tcins) == DedupUpTo(found_tcins, Len(found_tcins))

\* Mutant: the offset of the page after.
Offset_Mutant(pg) == pg * PageSize

Offset(pg) == (pg - 1) * PageSize

\* Mutant: positions counted from 0.
Position_Mutant(offset, i) == offset + i

\* position of the identifier that enumerate() numbers i (from 0).
Position(offset, i) == offset + i + 1

\* Mutant: the page is numbered from 0 (`for page in range(max_pages)`
\* without the shift in the record).
PageRecords_Mutant(unique, pg) ==
    [i \in 1..Len(unique) |->
        [tcin |-> unique[i], position |-> Position(Offset(pg), i - 1), page |-> pg - 1]]

\* The records one delivered page adds to all_tcins.
PageRecords(unique, pg) ==
    [i \in 1..Len(unique) |->
        [tcin |-> unique[i], position |-> Position(Offset(pg), i - 1), page |-> pg]]

\* Mutant: only an empty page ends the search.
LastPage_Mutant(unique) == Len(unique) = 0

\* `if len(unique_tcins) < 24: break`
LastPage(unique) == Len(unique) < PageSize

\* Mutant: one page more than asked (`range(1, max_pages + 2)`).
RangeExhausted_Mutant(pg, maxp) == pg = maxp + 1

\* `for page in range(1, max_pages + 1)`: pg is the last page of the range.
RangeExhausted(pg, maxp) == pg = maxp

\* Mutant: the records of the last page added are dropped on return.
Returned_Mutant(acc) ==
    IF acc = << >> THEN acc
    ELSE SelectSeq(acc, LAMBDA r : r.page # acc[Len(acc)].page)

\* `return all_tcins`, reached from both breaks and from the end of the loop.
Returned(acc) == acc

\* Mutant: the session is closed on the success path only.
FinallyClause_Mutant ==
    /\ IF driver # "none" /\ ~errored'
       THEN /\ driver' = "quit"
            /\ quitCount' = quitCount + 1
       ELSE UNCHANGED <<driver, quitCount>>
    /\ pc' = "done"
    /\ idx' = 0
    /\ page' = 0
    /\ all_tcins' = << >>
    /\ results_data' = EmptyDict
    /\ results_matrix' = << >>
    /\ passes' = << >>
    /\ kept' = EmptyDict
    /\ total_checks' = 0
    /\ found_count' = 0
    /\ success_rate' = 0
    /\ fetches' = 0

\* `finally: if driver: driver.quit()`, after which main returns and its
\* local variables are gone.
FinallyClause ==
    /\ IF driver # "none"
       THEN /\ driver' = "quit"
            /\ quitCount' = quitCount + 1
       ELSE UNCHANGED <<driver, quitCount>>
    /\ pc' = "done"
    /\ idx' = 0
    /\ page' = 0
    /\ all_tcins' = << >>
    /\ results_data' = EmptyDict
    /\ results_matrix' = << >>
    /\ passes' = << >>
    /\ kept' = EmptyDict
    /\ total_checks' = 0
    /\ found_count' = 0
    /\ success_rate' = 0
    /\ fetches' = 0

\* Mutant: an empty list is not stored (`if search_results:`).
StoreResults_Mutant(data, keyword, search_results) ==
    IF search_results = << >> THEN data ELSE Put(data, keyword, search_results)

\* `results_data[keyword] = search_results`
StoreResults(data, keyword, search_results) == Put(data, keyword, search_results)

\* One pass of `for page in range(1, max_pages + 1)`; when the pass ends the
\* loop, the call returns and main stores the list under the keyword.  When
\* st.warning raises inside the handler, the exception leaves the call and
\* main's except and finally clauses run.
PagePass ==
    /\ pc = "page"
    /\ \E o \in Outcomes, src \in PageSources, warnRaises \in BOOLEAN :
        LET issued    == o # "status_error"
            delivered == o \in {"ok", "progress_error"}
            found     == findall(src)
            unique    == unique_tcins(found)
            acc       == IF delivered THEN all_tcins \o PageRecords(unique, page)
                         ELSE all_tcins
            log       == Append(passes, [page |-> page, outcome |-> o,
                                          html |-> src, found |-> found])
            stop      == o # "ok" \/ LastPage(unique) \/ RangeExhausted(page, max_pages)
            keyword   == keyword_list[idx]
        IN  /\ driver = "dead" => o \in {"session", "status_error"}
            /\ ~delivered => src = << >>
            /\ o = "ok" => ~warnRaises
            /\ fetchAfterQuit' = (fetchAfterQuit \/ (issued /\ quitCount > 0))
            /\ IF o # "ok" /\ warnRaises
               THEN /\ errored' = TRUE
                    /\ FinallyClause
               ELSE IF stop
               THEN /\ pc' = "keyword"
                    /\ driver' = IF o = "session" THEN "dead" ELSE driver
                    /\ passes' = log
                    /\ results_data' = StoreResults(results_data, keyword, Returned(acc))
                    /\ kept' = IF o \in FetchFailures
                               THEN Put(kept, keyword,
                                        [idx |-> idx, records |-> Returned(acc)])
                               ELSE kept
                    /\ idx' = idx + 1
                    /\ all_tcins' = << >>
                    /\ page' = 0
                    /\ fetches' = IF issued THEN fetches + 1 ELSE fetches
                    /\ UNCHANGED <<errored, results_matrix, quitCount, total_checks,
                                   found_count,
                                   success_rate>>
               ELSE /\ page' = page + 1
                    /\ passes' = log
                    /\ all_tcins' = acc
                    /\ fetches' = IF issued THEN fetches + 1 ELSE fetches
                    /\ UNCHANGED <<pc, driver, idx, results_data, errored, kept,
                                   results_matrix, quitCount, total_checks,
                                   found_count,
                                   success_rate>>
    /\ UNCHANGED <<tcin_list, keyword_list, max_pages, initCount>>

\* ------------------------------------------------------------------ main
\* Mutant: only the identifier list is checked (`if not tcin_list:`).
RunSearch_Mutant ==
    /\ pc = "main"
    /\ pc' = IF tcin_list = << >> THEN "done" ELSE "init"
    /\ UNCHANGED <<tcin_list, keyword_list, max_pages, driver, idx, page, all_tcins,
                   results_data, results_matrix, passes, initCount,
                   quitCount, fetchAfterQuit, errored, total_checks, found_count,
                   success_rate, fetches, kept>>

\* `if run_search:` with the input check.
RunSearch ==
    /\ pc = "main"
    /\ pc' = IF tcin_list = << >> \/ keyword_list = << >> THEN "done" ELSE "init"
    /\ UNCHANGED <<tcin_list, keyword_list, max_pages, driver, idx, page, all_tcins,
                   results_data, results_matrix, passes, initCount,
                   quitCount, fetchAfterQuit, errored, total_checks, found_count,
                   success_rate, fetches, kept>>

\* Mutant: main goes on without a session (no `if not driver: return`).
InitDriver_Mutant ==
    /\ pc = "init"
    /\ \E created \in BOOLEAN :
        IF created
        THEN /\ driver' = "open"
             /\ initCount' = initCount + 1
             /\ idx' = 1
             /\ pc' = "keyword"
        ELSE /\ pc' = "keyword"
             /\ idx' = 1
             /\ UNCHANGED <<driver, initCount>>
    /\ UNCHANGED <<tcin_list, keyword_list, max_pages, page, all_tcins, results_data,
                   results_matrix, passes, quitCount, fetchAfterQuit,
                   errored, total_checks, found_count,
                   success_rate, fetches, kept>>

\* init_driver() and the `if not driver: return` that follows it.
InitDriver ==
    /\ pc = "init"
    /\ \E created \in BOOLEAN :
        IF created
        THEN /\ driver' = "open"
             /\ initCount' = initCount + 1
             /\ idx' = 1
             /\ pc' = "keyword"
        ELSE /\ pc' = "finally"
             /\ UNCHANGED <<driver, initCount, idx>>
    /\ UNCHANGED <<tcin_list, keyword_list, max_pages, page, all_tcins, results_data,
                   results_matrix, passes, quitCount, fetchAfterQuit,
                   errored, total_checks, found_count,
                   success_rate, fetches, kept>>

\* Mutant: the keyword loop is left after a search that a failure ended.
NextKeyword_Mutant ==
    /\ pc = "keyword"
    /\ IF /\ idx <= Len(keyword_list)
          /\ (passes = << >> \/ passes[Len(passes)].outcome = "ok")
       THEN /\ pc' = "page"
            /\ page' = 1
            /\ all_tcins' = << >>
            /\ passes' = << >>
       ELSE /\ pc' = "matrix"
            /\ passes' = << >>
            /\ UNCHANGED <<page, all_tcins>>
    /\ UNCHANGED <<tcin_list, keyword_list, max_pages, driver, idx, results_data,
                   results_matrix, initCount, quitCount, fetchAfterQuit,
                   errored, total_checks, found_count, success_rate, fetches, kept>>

\* Head of `for idx, keyword in enumerate(keyword_list)`: enter the search of
\* the next keyword, or leave the loop.
NextKeyword ==
    /\ pc = "keyword"
    /\ IF idx <= Len(keyword_list)
       THEN /\ pc' = "page"
            /\ page' = 1
            /\ all_tcins' = << >>
            /\ passes' = << >>
       ELSE /\ pc' = "matrix"
            /\ passes' = << >>
            /\ UNCHANGED <<page, all_tcins>>
    /\ UNCHANGED <<tcin_list, keyword_list, max_pages, driver, idx, results_data,
                   results_matrix, initCount, quitCount, fetchAfterQuit,
                   errored, total_checks, found_count,
                   success_rate, fetches, kept>>

\* The scan `for result in results_data.get(keyword, [])` from record i on.
RECURSIVE Scan(_, _, _)
Scan(records, tcin, i) ==
    IF i > Len(records) THEN Absent
    ELSE IF records[i].tcin = tcin THEN Found(records[i].position, records[i].page)
    ELSE Scan(records, tcin, i + 1)

\* Mutant: the last matching record wins.
Cell_Mutant(records, tcin) ==
    LET m == {i \in 1..Len(records) : records[i].tcin = tcin}
    IN  IF m = {} THEN Absent
        ELSE LET l == CHOOSE i \in m : \A j \in m : j <= i
             IN  Found(records[l].position, records[l].page)

Cell(records, tcin) == Scan(records, tcin, 1)

\* The row dict after the first n keywords were written into it.
RECURSIVE RowUpTo(_, _, _, _)
RowUpTo(tcin, kws, data, n) ==
    IF n = 0 THEN Put(EmptyDict, RowLabel, Label(tcin))
    ELSE Put(RowUpTo(tcin, kws, data, n - 1), kws[n],
             Cell(Get(data, kws[n], << >>), tcin))

Matrix(tcins, kws, data) ==
    [r \in 1..Len(tcins) |-> RowUpTo(tcins[r], kws, data, Len(kws))]

\* Mutant: the build empties the result set as it reads it
\* (`results_data.pop(keyword, [])`).
BuildMatrix_Mutant ==
    /\ pc = "matrix"
    /\ results_matrix' = Matrix(tcin_list, keyword_list, results_data)
    /\ results_data' = EmptyDict
    /\ pc' = "report"
    /\ UNCHANGED <<tcin_list, keyword_list, max_pages, driver, idx, page, all_tcins,
                   passes, initCount, quitCount, fetchAfterQuit, errored,
                   total_checks, found_count, success_rate, fetches, kept>>

BuildMatrix ==
    /\ pc = "matrix"
    /\ results_matrix' = Matrix(tcin_list, keyword_list, results_data)
    /\ pc' = "report"
    /\ UNCHANGED <<tcin_list, keyword_list, max_pages, driver, idx, page, all_tcins,
                   results_data, passes, initCount, quitCount,
                   fetchAfterQuit, errored, total_checks, found_count,
                   success_rate, fetches, kept>>

\* Mutant: every key of the row is counted (`for k in row`), the row label
\* included and a repeated keyword once.
CountFound_Mutant(matrix, kws, r, k) ==
    Cardinality({c \in {<<i, key>> : i \in 1..Len(matrix), key \in Keywords \cup {RowLabel}} :
                    c[2] \in DOMAIN matrix[c[1]] /\ matrix[c[1]][c[2]] # Absent})

\* sum(1 for row in results_matrix for k in keyword_list if row[k] != dash)
RECURSIVE CountFound(_, _, _, _)
CountFound(matrix, kws, r, k) ==
    IF r > Len(matrix) THEN 0
    ELSE IF k > Len(kws) THEN CountFound(matrix, kws, r + 1, 1)
    ELSE (IF matrix[r][kws[k]] # Absent THEN 1 ELSE 0)
         + CountFound(matrix, kws, r, k + 1)

\* f"{(found_count/total_checks*100):.1f}%": the percentage rounded to the
\* nearest tenth (a tie goes to the even digit), in tenths of a percent.
SuccessRate(found, total) ==
    LET n == found * 1000
        q == n \div total
        r == n % total
    IN  IF 2 * r > total \/ (2 * r = total /\ q % 2 = 1) THEN q + 1 ELSE q

\* The table, the summary statistics and the download button.  With
\* total_checks = 0 the division raises ZeroDivisionError instead, which is
\* one of the exceptions of UnexpectedError.
Report ==
    /\ pc = "report"
    /\ LET total == Len(tcin_list) * Len(keyword_list)
           found == CountFound(results_matrix, keyword_list, 1, 1)
       IN  /\ total # 0
           /\ total_checks' = total
           /\ found_count' = found
           /\ success_rate' = SuccessRate(found, total)
    /\ pc' = "finally"
    /\ UNCHANGED <<tcin_list, keyword_list, max_pages, driver, idx, page, all_tcins,
                   results_data, results_matrix, passes, initCount,
                   quitCount, fetchAfterQuit, errored, fetches, kept>>

\* A Streamlit or pandas call of main raises inside the try block: before
\* init_driver, between two keywords, before the matrix build or while the
\* report is rendered.  `except Exception` reports it, then the finally
\* clause runs.
UnexpectedError ==
    /\ pc \in {"init", "keyword", "matrix", "report"}
    /\ errored' = TRUE
    /\ FinallyClause
    /\ UNCHANGED <<tcin_list, keyword_list, max_pages, initCount, fetchAfterQuit>>

\* The finally clause on the paths that leave the try block without an
\* exception: the end of the report, and `return` after init_driver failed.
Finally ==
    /\ pc = "finally"
    /\ FinallyClause
    /\ UNCHANGED <<tcin_list, keyword_list, max_pages, initCount, fetchAfterQuit,
                   errored>>

Next ==
    \/ RunSearch
    \/ InitDriver
    \/ NextKeyword
    \/ PagePass
    \/ BuildMatrix
    \/ Report
    \/ UnexpectedError
    \/ Finally

Spec == Init /\ [][Next]_vars

\* main is one sequential thread: as long as a step is possible, one is
\* taken (every driver.get and every widget call returns or raises).
LiveSpec == Spec /\ WF_vars(Next)

\* ============================================================ properties
\* Vocabulary of the properties below.
Delivered(p) == p.outcome \in {"ok", "progress_error"}
Fetched(p) == p.outcome # "status_error"
Count(p) == Len(unique_tcins(p.found))
Range(f) == {f[x] : x \in DOMAIN f}

\* The call has returned and main is between two keywords.
JustReturned == pc = "keyword" /\ passes # << >>
ReturnedKeyword == keyword_list[idx - 1]
ReturnedList == results_data[ReturnedKeyword]

\* Every record list the run holds.
RecordLists == {all_tcins} \cup Range(results_data)

\* 0-based index of record i among the records of its page in list L.
LocalIndex(L, i) == Cardinality({j \in 1..(i - 1) : L[j].page = L[i].page})

\* The matrix build has run (a run that reaches it has an identifier).
MatrixBuilt == results_matrix # << >>

\* ------------------------------------------------------------------- C1
\* C1: in one search, a delivered page with fewer than 24 de-duplicated
\* identifiers (zero included) is the last pass of the search: the call has
\* returned and no later pass fetched anything, whatever max_pages is.
C1_NoFetchAfterShortPage ==
    \A i \in 1..Len(passes) :
        (Delivered(passes[i]) /\ Count(passes[i]) < PageSize)
            => (i = Len(passes) /\ pc # "page")

\* Scenario B: 10 identifiers on page 1, more pages allowed, one fetch.
C1_Witness ==
    /\ JustReturned
    /\ max_pages > 1
    /\ Len(passes) = 1
    /\ passes[1].outcome = "ok"
    /\ Count(passes[1]) = 10

\* ------------------------------------------------------------------- C2
\* C2: every record of the list a search is building, and of the list it
\* has just returned, has position = (page - 1) * 24 + local_index + 1 and
\* is the identifier at local_index of its page's de-duplicated sequence,
\* local_index counting the records of the same page before it.
C2_PositionFormula ==
    (JustReturned \/ pc = "page") =>
        \A L \in {IF JustReturned THEN ReturnedList ELSE all_tcins} :
        \A u \in {[p \in 1..Len(passes) |-> unique_tcins(passes[p].found)]} :
            \A i \in 1..Len(L) :
                /\ L[i].position = (L[i].page - 1) * 24 + LocalIndex(L, i) + 1
                /\ \E p \in 1..Len(passes) :
                       /\ passes[p].page = L[i].page
                       /\ Delivered(passes[p])
                       /\ LocalIndex(L, i) < Len(u[p])
                       /\ L[i].tcin = u[p][LocalIndex(L, i) + 1]

\* Records of two pages, the second one starting at position 25.
C2_Witness ==
    /\ JustReturned
    /\ Len(ReturnedList) > PageSize
    /\ ReturnedList[1].page = 1
    /\ ReturnedList[PageSize + 1].page = 2
    /\ ReturnedList[PageSize + 1].position = 25

\* ------------------------------------------------------------------- C3
\* C3: in every record list the positions are strictly increasing in list
\* order, across page boundaries too, whatever each page yields.
C3_StrictlyIncreasing ==
    \A L \in RecordLists : \A i \in 1..(Len(L) - 1) :
        L[i].position < L[i + 1].position

\* ------------------------------------------------------------------- C4
\* C4: a failed fetch of a page, while the failed attempts at that page
\* number at most max_retries (2 in the scenario), is followed by another
\* fetch of the same page in the same search.
C4_RetryAfterFailure ==
    JustReturned =>
        \A i \in 1..Len(passes) :
            (/\ passes[i].outcome \in FetchFailures
             /\ Cardinality({j \in 1..i : /\ passes[j].page = passes[i].page
                                          /\ passes[j].outcome \in FetchFailures}) <= 2)
                => \E j \in (i + 1)..Len(passes) :
                       passes[j].page = passes[i].page /\ Fetched(passes[j])

\* ------------------------------------------------------------------- C5
\* The records the delivered passes among the first n of a log add up to.
RECURSIVE Collected(_, _)
Collected(log, n) ==
    IF n = 0 THEN << >>
    ELSE Collected(log, n - 1)
         \o (IF Delivered(log[n])
             THEN [i \in 1..Count(log[n]) |->
                     [tcin |-> unique_tcins(log[n].found)[i],
                      position |-> (log[n].page - 1) * 24 + i,
                      page |-> log[n].page]]
             ELSE << >>)

\* The cell the first record of recs with identifier tcin gives.
FirstMatch(recs, tcin) ==
    LET m == {i \in 1..Len(recs) : recs[i].tcin = tcin}
    IN  IF m = {} THEN Absent
        ELSE LET f == CHOOSE i \in m : \A j \in m : i <= j
             IN  Found(recs[f].position, recs[f].page)

\* Occurrence i of its keyword is the last one in keyword_list.
LastOccurrence(i) == \A j \in (i + 1)..Len(keyword_list) : keyword_list[j] # keyword_list[i]

\* A failed fetch ends the search: it is the last pass, and the list returned
\* is what the earlier delivered pages added, in order.
AbandonReturnsCollected ==
    /\ pc = "page" => \A i \in 1..Len(passes) : passes[i].outcome = "ok"
    /\ (JustReturned /\ passes[Len(passes)].outcome \in FetchFailures)
           => ReturnedList = Collected(passes, Len(passes) - 1)

\* C5 as stated: a page whose fetch fails ends the search, the search
\* returns the records of the earlier pages unchanged and in order, and the
\* matrix column of that keyword is built from exactly those records.
C5_AbandonedRecordsInMatrix ==
    /\ AbandonReturnsCollected
    /\ MatrixBuilt =>
           \A k \in DOMAIN kept : \A r \in 1..Len(tcin_list) :
               results_matrix[r][k] = FirstMatch(kept[k].records, tcin_list[r])

\* C5 amended: the same, the matrix column being built from those records
\* when the keyword does not occur again later in the keyword list (a later
\* search of the same keyword replaces its list).
C5_AbandonedRecordsInMatrixOfLastSearch ==
    /\ AbandonReturnsCollected
    /\ MatrixBuilt =>
           \A k \in DOMAIN kept : \A r \in 1..Len(tcin_list) :
               LastOccurrence(kept[k].idx) =>
                   results_matrix[r][k] = FirstMatch(kept[k].records, tcin_list[r])

\* Page 2 failed, page 1's records were kept and one of them fills a cell.
C5_Witness ==
    /\ MatrixBuilt
    /\ \E k \in DOMAIN kept :
           /\ LastOccurrence(kept[k].idx)
           /\ Len(kept[k].records) >= PageSize
           /\ results_matrix[1][k].kind = "found"

\* ------------------------------------------------------------------- C6
\* C6: the built matrix has one row per identifier, each row labelled with
\* its identifier and holding one cell per keyword of the keyword list, a
\* found descriptor or the dash: |identifiers| x |keywords| cells.
C6_MatrixComplete ==
    MatrixBuilt =>
        /\ Len(results_matrix) = Len(tcin_list)
        /\ \A r \in 1..Len(results_matrix) :
               LET row == results_matrix[r]
               IN  /\ RowLabel \in DOMAIN row
                   /\ row[RowLabel] = Label(tcin_list[r])
                   /\ Cardinality(DOMAIN row \ {RowLabel}) = Len(keyword_list)
                   /\ \A k \in DOMAIN row \ {RowLabel} :
                          row[k].kind \in {"found", "absent"}

\* ------------------------------------------------------------------- C7
\* C7: every cell is the position and page of the first record of the
\* keyword's list with the row's identifier, and the dash exactly when the
\* list has no such record.
C7_FirstMatchWins ==
    MatrixBuilt =>
        \A r \in 1..Len(tcin_list) : \A c \in 1..Len(keyword_list) :
            LET k    == keyword_list[c]
                recs == Get(results_data, k, << >>)
                cell == results_matrix[r][k]
            IN  /\ cell = FirstMatch(recs, tcin_list[r])
                /\ cell = Absent <=> \A i \in 1..Len(recs) : recs[i].tcin # tcin_list[r]

\* An identifier listed on page 1 and again on page 2 is reported at its
\* page-1 position.
C7_Witness ==
    /\ MatrixBuilt
    /\ \E r \in 1..Len(tcin_list) : \E k \in DOMAIN results_data :
           /\ k \in DOMAIN results_matrix[r]
           /\ results_matrix[r][k].kind = "found"
           /\ results_matrix[r][k].page = 1
           /\ \E i \in 1..Len(results_data[k]) :
                  /\ results_data[k][i].tcin = tcin_list[r]
                  /\ results_data[k][i].page = 2

\* ------------------------------------------------------------------- C8
\* Scenario A: identifiers {"111", "222"}, keyword "x", and page 1 of "x"
\* yields the 24 identifiers "222", "333", ... in this order.
ScenarioA ==
    /\ MatrixBuilt
    /\ Len(tcin_list) = 2
    /\ {tcin_list[1], tcin_list[2]} = {111, 222}
    /\ keyword_list = <<"x">>
    /\ "x" \in DOMAIN results_data
    /\ LET recs == results_data["x"]
       IN  /\ Len(recs) >= 24
           /\ \A i \in 1..24 : recs[i].page = 1 /\ recs[i].tcin = 111 * (i + 1)
           /\ Len(recs) > 24 => recs[25].page # 1

\* The cell of identifier t under keyword "x".
CellOfX(t) == results_matrix[CHOOSE r \in 1..Len(tcin_list) : tcin_list[r] = t]["x"]

\* C8 as stated: in scenario A, "111" is absent and "222" is #2 on page 1.
C8_ScenarioA_Second ==
    ScenarioA => (CellOfX(111) = Absent /\ CellOfX(222) = Found(2, 1))

\* C8 amended: in scenario A, "222" is #1 on page 1, and "111" is absent
\* when no later page of "x" yields it.
C8_ScenarioA_First ==
    ScenarioA =>
        /\ CellOfX(222) = Found(1, 1)
        /\ (\A i \in 1..Len(results_data["x"]) : results_data["x"][i].tcin # 111)
               => CellOfX(111) = Absent

C8_Witness == ScenarioA /\ CellOfX(111) = Absent /\ CellOfX(222).kind = "found"

\* ------------------------------------------------------------------- C9
\* C9: driver.quit() is called at most once, only as the last step of the
\* run, never before a fetch; and a run that created a session and has ended
\* has called it exactly once, whether it ended normally, after a keyword
\* was abandoned, or through the except clause.
C9_SessionClosedOnce ==
    /\ quitCount <= 1
    /\ ~fetchAfterQuit
    /\ quitCount = 1 => (pc = "done" /\ initCount = 1)
    /\ (pc = "done" /\ initCount > 0) => quitCount = 1

\* A run that created its session, hit the except clause, and closed.
C9_Witness ==
    /\ pc = "done"
    /\ errored
    /\ initCount = 1
    /\ quitCount = 1

\* ------------------------------------------------------------------ C10
\* C10: a session lost during a keyword's search is discarded and replaced:
\* when the keyword loop is left with a lost session, a second session has
\* been created.
C10_SessionRecreated ==
    (pc = "matrix" /\ driver = "dead") => initCount >= 2

\* ------------------------------------------------------------------ C11
\* Every requested keyword has an entry in the result set.
EveryKeywordHasEntry == \A c \in 1..Len(keyword_list) : keyword_list[c] \in DOMAIN results_data

\* The search recorded in kept[k] failed on its first page: nothing was kept.
FirstPageFailed(k) == kept[k].records = << >>

\* C11 as stated: when the matrix build starts, every requested keyword has
\* an entry, and a keyword of which a search failed on its first page has the
\* empty sequence as its entry.
C11_EntryPerKeyword ==
    pc = "matrix" =>
        /\ EveryKeywordHasEntry
        /\ \A k \in DOMAIN kept :
               FirstPageFailed(k) => (k \in DOMAIN results_data /\ results_data[k] = << >>)

\* C11 amended: the same, the empty sequence being the entry when the search
\* that failed on its first page is the last search of that keyword.
C11_EntryPerKeywordOfLastSearch ==
    pc = "matrix" =>
        /\ EveryKeywordHasEntry
        /\ \A k \in DOMAIN kept :
               (FirstPageFailed(k) /\ LastOccurrence(kept[k].idx))
                   => (k \in DOMAIN results_data /\ results_data[k] = << >>)

\* The first page of the only search of a keyword failed, another keyword
\* has records, and the matrix build is about to start.
C11_Witness ==
    /\ pc = "matrix"
    /\ \E k \in DOMAIN kept :
           /\ FirstPageFailed(k)
           /\ LastOccurrence(kept[k].idx)
           /\ k \in DOMAIN results_data
           /\ results_data[k] = << >>
    /\ \E k \in DOMAIN results_data : results_data[k] # << >>

\* ------------------------------------------------------------------ C12
\* Index of the first occurrence of t in s.
FirstIndex(s, t) == CHOOSE i \in 1..Len(s) : s[i] = t /\ \A j \in 1..(i - 1) : s[j] # t

\* u lists every entry of s once, in the order of the first occurrences:
\* the first occurrences in s of the entries of u are strictly increasing
\* (so no two entries of u are equal).
FirstOccurrences(u, s) ==
    /\ Range(u) = Range(s)
    /\ \A f \in {[i \in 1..Len(u) |-> FirstIndex(s, u[i])]} :
           \A i \in 1..(Len(u) - 1) : f[i] < f[i + 1]

\* C12: the sequence extracted from a page holds no identifier twice and
\* lists the identifiers of the page in the order of their first occurrence.
C12_UniqueInFirstOccurrenceOrder ==
    \A p \in 1..Len(passes) :
        \A u \in {unique_tcins(passes[p].found)} : FirstOccurrences(u, passes[p].found)

\* A delivered page that links one product twice, far apart: the product is
\* extracted once, at the index of its first link.
C12_Witness ==
    \E p \in 1..Len(passes) :
        /\ Delivered(passes[p])
        /\ Len(passes[p].found) = 25
        /\ passes[p].found[1] = passes[p].found[25]
        /\ Count(passes[p]) = 24
        /\ unique_tcins(passes[p].found)[1] = passes[p].found[1]

\* ------------------------------------------------------------------ C13
\* The passes in which a call of the status or progress widget raised.
SinkFailures == {"status_error", "progress_error"}

\* C13: a raising status or progress call changes nothing in the search: the
\* page of that pass is fetched all the same, and the search goes on after
\* it exactly when it would with a working sink, that is unless the page
\* yields fewer than 24 identifiers or is page max_pages.
C13_SinkNeverInfluences ==
    \A i \in 1..Len(passes) :
        passes[i].outcome \in SinkFailures =>
            /\ Fetched(passes[i])
            /\ (i = Len(passes) /\ pc # "page")
                   => (Count(passes[i]) < PageSize \/ passes[i].page = max_pages)

\* ------------------------------------------------------------------ C14
\* The report has been rendered.
Reported == pc = "finally" /\ MatrixBuilt

\* The (identifier, keyword) pairs of the inputs, by index, whose cell is not
\* the dash.
FoundPairs ==
    {c \in (1..Len(tcin_list)) \X (1..Len(keyword_list)) :
        results_matrix[c[1]][keyword_list[c[2]]] # Absent}

\* C14: the report shows total = |identifiers| x |keywords|, found = the
\* number of pairs whose cell is not the dash, 0 <= found <= total and, as
\* rate, found / total to the nearest tenth of a percent; the division is
\* never reached with total = 0, a run with an empty list being rejected
\* before the crawl.
C14_Aggregates ==
    /\ pc \in {"init", "keyword", "page", "matrix", "report"}
           => (tcin_list # << >> /\ keyword_list # << >>)
    /\ pc = "report" => Len(tcin_list) * Len(keyword_list) > 0
    /\ Reported =>
           /\ total_checks = Len(tcin_list) * Len(keyword_list)
           /\ total_checks > 0
           /\ found_count = Cardinality(FoundPairs)
           /\ 0 <= found_count /\ found_count <= total_checks
           /\ 2 * (success_rate * total_checks - found_count * 1000) <= total_checks
           /\ 2 * (found_count * 1000 - success_rate * total_checks) <= total_checks

\* A report over four pairs of which some, not all, were found.
C14_Witness ==
    /\ Reported
    /\ total_checks = 4
    /\ found_count \in 1..3
    /\ success_rate = found_count * 250

\* ------------------------------------------------------------------ C15
\* The search that has just returned was ended by a failure.
FailedReturn == JustReturned /\ passes[Len(passes)].outcome # "ok"

\* C15: after a search that a failure ended, unless a call of main itself
\* raises, main goes on with the next keyword from page 1 and an empty list,
\* or with the matrix build when it was the last keyword; the keyword index
\* advances only when a search that started at page 1 returns, the matrix
\* build starts only after the last keyword, and every row of the matrix
\* has a cell for every keyword.
C15_FailureDoesNotEndRun ==
    /\ [](pc \in {"matrix", "report"} => idx = Len(keyword_list) + 1)
    /\ [](MatrixBuilt =>
             \A r \in 1..Len(results_matrix) : \A c \in 1..Len(keyword_list) :
                 keyword_list[c] \in DOMAIN results_matrix[r])
    /\ [][(idx >= 1 /\ idx' = idx + 1)
             => (pc = "page" /\ passes' # << >> /\ passes'[1].page = 1)]_vars
    /\ [][(FailedReturn /\ ~errored')
             => IF idx <= Len(keyword_list)
                THEN pc' = "page" /\ page' = 1 /\ all_tcins' = << >> /\ idx' = idx
                ELSE pc' = "matrix"]_vars

\* The search of the first keyword failed, the second keyword was searched
\* and has records, and the matrix was built.
C15_Witness ==
    /\ MatrixBuilt
    /\ Len(keyword_list) = 2
    /\ \E k \in DOMAIN kept : kept[k].idx = 1 /\ k # keyword_list[2]
    /\ results_data[keyword_list[2]] # << >>
    /\ keyword_list[2] \in DOMAIN results_matrix[1]

\* ------------------------------------------------------------------ C16
\* C16: no page adds more than 24 records to a record list.
C16_AtMostPageSizePerPage ==
    \A L \in RecordLists : \A pg \in 1..max_pages :
        Cardinality({i \in 1..Len(L) : L[i].page = pg}) <= PageSize

\* ------------------------------------------------------------------ C17
\* The primary results region of a page: what precedes the first heading
\* of a secondary section.
Primary(page_html) ==
    LET m == {i \in 1..Len(page_html) : page_html[i] = Marker}
    IN  IF m = {} THEN page_html
        ELSE SubSeq(page_html, 1, (CHOOSE i \in m : \A j \in m : i <= j) - 1)

\* C17: every record of the list a search is building or has just returned
\* carries an identifier linked in the primary region of its page: an
\* identifier linked only after the first marker gets no record.
C17_PrimaryRegionOnly ==
    (JustReturned \/ pc = "page") =>
        \A L \in {IF JustReturned THEN ReturnedList ELSE all_tcins} :
            \A i \in 1..Len(L) :
                \E p \in 1..Len(passes) :
                    /\ passes[p].page = L[i].page
                    /\ L[i].tcin \in Range(Primary(passes[p].html))

\* ------------------------------------------------------------------ C18
\* C18: in the list a search is building or has just returned, every
\* identifier extracted from a delivered page has exactly one record of that
\* page, and two records of one identifier differ in page and in position.
C18_OneRecordPerPage ==
    (JustReturned \/ pc = "page") =>
        \A L \in {IF JustReturned THEN ReturnedList ELSE all_tcins} :
            /\ \A p \in 1..Len(passes) :
                   Delivered(passes[p]) =>
                       \A t \in Range(unique_tcins(passes[p].found)) :
                           Cardinality({i \in 1..Len(L) : /\ L[i].page = passes[p].page
                                                          /\ L[i].tcin = t}) = 1
            /\ \A i, j \in 1..Len(L) :
                   (i # j /\ L[i].tcin = L[j].tcin)
                       => (L[i].page # L[j].page /\ L[i].position # L[j].position)

\* ------------------------------------------------------------------ C19
\* C19: the passes of one search are for pages 1, 2, 3, ... in this order,
\* none beyond max_pages; every pass but the last fetched its page, was
\* delivered in full and yielded at least 24 identifiers; and the page the
\* search is about to request is the one after the last pass.
C19_PagesInOrder ==
    /\ \A i \in 1..Len(passes) :
           /\ passes[i].page = i
           /\ i <= max_pages
           /\ i < Len(passes) => (passes[i].outcome = "ok" /\ Count(passes[i]) >= PageSize)
    /\ pc = "page" =>
           /\ page = Len(passes) + 1
           /\ page <= max_pages
           /\ \A i \in 1..Len(passes) :
                  passes[i].outcome = "ok" /\ Count(passes[i]) >= PageSize

\* Page 2 was requested, after a full page 1, and is the last page allowed.
C19_Witness ==
    /\ JustReturned
    /\ max_pages = 2
    /\ Len(passes) = 2
    /\ Count(passes[1]) >= PageSize
    /\ Fetched(passes[2])
    /\ Count(passes[2]) >= PageSize

\* ------------------------------------------------------------------ C20
\* C20: the matrix build leaves the result set and the two input lists as
\* they were, and building again from what it left yields the matrix it
\* built.
C20_BuildIsPure ==
    /\ [](pc = "report" => results_matrix = Matrix(tcin_list, keyword_list, results_data))
    /\ [][(pc = "matrix" /\ pc' = "report")
             => /\ results_data' = results_data
                /\ tcin_list' = tcin_list
                /\ keyword_list' = keyword_list]_vars

\* A matrix with a found cell, built from a result set that still holds the
\* records.
C20_Witness ==
    /\ pc = "report"
    /\ \E k \in DOMAIN results_data : Len(results_data[k]) >= PageSize
    /\ \E r \in 1..Len(results_matrix) : \E c \in 1..Len(keyword_list) :
           results_matrix[r][keyword_list[c]].kind = "found"

\* ------------------------------------------------------------------ C21
\* The page numbers that occur in record list L.
PagesOf(L) == {L[i].page : i \in 1..Len(L)}

\* The number of records of page pg in L.
RecordsOfPage(L, pg) == Cardinality({i \in 1..Len(L) : L[i].page = pg})

\* C21: in every record list of the run (the one a search is building and
\* the ones stored per keyword) the pages that occur are exactly 1..k for
\* some k <= max_pages, they occur in non-decreasing order, and every page
\* but the last one present has at least 24 records.
C21_RecordListWellFormed ==
    \A L \in RecordLists :
        \A pages \in {PagesOf(L)} :
            /\ \E k \in 0..max_pages : pages = 1..k
            /\ \A i \in 1..(Len(L) - 1) : L[i].page <= L[i + 1].page
            /\ \A pg \in pages :
                   (\E q \in pages : q > pg) => RecordsOfPage(L, pg) >= PageSize

\* A search that has added a full page 1 and a short page 2.
C21_Witness ==
    /\ JustReturned
    /\ PagesOf(ReturnedList) = {1, 2}
    /\ RecordsOfPage(ReturnedList, 1) >= PageSize
    /\ RecordsOfPage(ReturnedList, 2) < PageSize

\* ------------------------------------------------------------------ C22
\* The fetches issued by the search in progress or just returned.
FetchesOfSearch == Cardinality({i \in 1..Len(passes) : Fetched(passes[i])})

\* C22: the run ends; at every moment it has issued at most
\* |keyword_list| x max_pages fetches in all, and at most max_pages for the
\* occurrence of a keyword being searched.
C22_TerminatesWithinFetchBudget ==
    /\ <>(pc = "done")
    /\ [](fetches <= Len(keyword_list) * max_pages)
    /\ [](FetchesOfSearch <= max_pages)

\* Two keywords, two pages each: the four fetches allowed were all issued.
C22_Witness ==
    /\ pc = "matrix"
    /\ Len(keyword_list) = 2
    /\ max_pages = 2
    /\ fetches = 4

\* ------------------------------------------------------------------ C23
\* C23: with an empty identifier list or an empty keyword list the run goes
\* from the button straight to its end: no session is created, no page is
\* fetched, no matrix or report is built and driver.quit() is not called.
C23_EmptyInputRejected ==
    (tcin_list = << >> \/ keyword_list = << >>) =>
        /\ pc \in {"main", "done"}
        /\ driver = "none"
        /\ initCount = 0
        /\ quitCount = 0
        /\ fetches = 0
        /\ passes = << >>
        /\ results_matrix = << >>
        /\ total_checks = 0
        /\ ~errored

\* A run with identifiers and no keyword has ended.
C23_Witness ==
    /\ pc = "done"
    /\ tcin_list # << >>
    /\ keyword_list = << >>

\* ------------------------------------------------------------------ C24
\* C24: as long as no session was created, no page is fetched, no matrix
\* or report is built and driver.quit() is not called; and once init_driver
\* has failed, the next step ends the run, without a quit and without the
\* except clause.
C24_InitFailureEndsRun ==
    /\ [](initCount = 0 =>
             /\ pc \in {"main", "init", "finally", "done"}
             /\ driver = "none"
             /\ quitCount = 0
             /\ fetches = 0
             /\ passes = << >>
             /\ results_matrix = << >>
             /\ total_checks = 0)
    /\ [][(pc = "finally" /\ initCount = 0)
             => (pc' = "done" /\ quitCount' = 0 /\ driver' = "none" /\ ~errored')]_vars

\* A run with both lists filled in ended after init_driver failed.
C24_Witness ==
    /\ pc = "done"
    /\ tcin_list # << >>
    /\ keyword_list # << >>
    /\ initCount = 0
    /\ quitCount = 0
    /\ ~errored

====
